---------------------------- MODULE Spec2Model ----------------------------
(***************************************************************************)
(* A model of the EnviDat -> OpenDataSwiss exporter (src/main.py and its   *)
(* helpers).  Three specifications share this module:                      *)
(*   Spec          main(): fetch, sort, per-record conversion loop,        *)
(*                 catalog wrapping and the S3 publishing steps;           *)
(*   SpecMapper    get_opendataswiss_ordered_dict applied to one record;   *)
(*   SpecSanitizer _clean_text applied once and then again to a text.      *)
(* Python dicts are functions whose DOMAIN is the set of keys present;     *)
(* free text that is edited character by character is a sequence of        *)
(* one-character strings; other strings are TLA+ strings.                  *)
(***************************************************************************)
EXTENDS Integers, Sequences, FiniteSets, TLC

VARIABLES
    \* ---- Spec: main() and envidat_to_opendataswiss_converter()
    pc,                   \* where main() is
    response,             \* what the catalog API answered to the one request
    attempts,             \* requests.get calls made so far
    metadata_list,        \* the record list the conversion loop walks
    idx,                  \* position of the loop in metadata_list (1-based)
    converted_packages,   \* the datasets appended so far
    xml_data,             \* what the converter returned
    log,                  \* the error lines logged so far
    raised,               \* the exception that left main(), or "none"
    bucket,               \* what create_s3_bucket returned
    s3_calls,             \* the storage-client calls made so far, in order
    \* ---- SpecMapper
    record,               \* the argument of get_opendataswiss_ordered_dict
    package_dict,         \* what it returned
    mapped,               \* whether it has been called
    \* ---- SpecSanitizer
    text,                 \* the argument of _clean_text
    cleaned,              \* _clean_text(text)
    recleaned,            \* _clean_text(_clean_text(text))
    passes                \* how many times the sanitizer has run (0, 1, 2)

mainVars == <<pc, response, attempts, metadata_list, idx, converted_packages, xml_data,
              log, raised, bucket, s3_calls>>
mapperVars == <<record, package_dict, mapped>>
sanitizerVars == <<text, cleaned, recleaned, passes>>
vars == <<mainVars, mapperVars, sanitizerVars>>

---------------------------------------------------------------------------
(* Bounds of the model *)

\* longest text enumerated for the sanitizer
MaxLen == 5

\* most resources of a record given to the mapper
MaxResources == 2

\* most records in the list the catalog API returns
MaxRecords == 3

---------------------------------------------------------------------------
(* Python values *)

\* Python's None, where a string-valued field may hold it
None == "<None>"

\* dict.get(key, default)
Get(d, key, default) == IF key \in DOMAIN d THEN d[key] ELSE default

\* truth value of a string-or-None value (None and "" are falsy)
Truthy(v) == v # None /\ v # ""

---------------------------------------------------------------------------
(* Text sanitizer: src/main.py _clean_text *)

SP == " "
HASH == "#"
US == "_"
CR == "\r"
LF == "\n"

\* str.replace(old, new): left to right, non-overlapping, a single pass
RECURSIVE replace(_, _, _)
replace(s, old, new) ==
    IF Len(s) < Len(old) THEN s
    ELSE IF SubSeq(s, 1, Len(old)) = old
         THEN new \o replace(SubSeq(s, Len(old) + 1, Len(s)), old, new)
         ELSE <<Head(s)>> \o replace(Tail(s), old, new)

\* a mutant of _clean_text: "\n\n" collapsed before "\r" is turned into "\n"
clean_text_newlines_swapped(t) ==
    LET r1 == replace(t, <<HASH, HASH, HASH>>, <<>>)
        r2 == replace(r1, <<HASH, HASH>>, <<>>)
        r3 == replace(r2, <<SP, HASH>>, <<SP>>)
        r4 == replace(r3, <<HASH, SP>>, <<SP>>)
        r5 == replace(r4, <<US, US>>, <<>>)
        r6 == replace(r5, <<SP, SP>>, <<SP>>)
        r7 == replace(r6, <<LF, LF>>, <<LF>>)
        r8 == replace(r7, <<CR>>, <<LF>>)
    IN  r8

\* a mutant of _clean_text: the double-space rule is missing
clean_text_no_space_rule(t) ==
    LET r1 == replace(t, <<HASH, HASH, HASH>>, <<>>)
        r2 == replace(r1, <<HASH, HASH>>, <<>>)
        r3 == replace(r2, <<SP, HASH>>, <<SP>>)
        r4 == replace(r3, <<HASH, SP>>, <<SP>>)
        r5 == replace(r4, <<US, US>>, <<>>)
        r7 == replace(r5, <<CR>>, <<LF>>)
        r8 == replace(r7, <<LF, LF>>, <<LF>>)
    IN  r8

\* _clean_text: the eight replacements in their fixed order
clean_text(t) ==
    LET r1 == replace(t, <<HASH, HASH, HASH>>, <<>>)
        r2 == replace(r1, <<HASH, HASH>>, <<>>)
        r3 == replace(r2, <<SP, HASH>>, <<SP>>)
        r4 == replace(r3, <<HASH, SP>>, <<SP>>)
        r5 == replace(r4, <<US, US>>, <<>>)
        r6 == replace(r5, <<SP, SP>>, <<SP>>)
        r7 == replace(r6, <<CR>>, <<LF>>)
        r8 == replace(r7, <<LF, LF>>, <<LF>>)
    IN  r8

---------------------------------------------------------------------------
(* Results of a call: a returned value or a raised exception *)

Return(v) == [ok |-> TRUE, value |-> v]
Raise(e) == [ok |-> FALSE, exc |-> e]

---------------------------------------------------------------------------
(* Library calls, modelled on the texts the model feeds them *)

\* dateutil parse(text).strftime("%Y-%m-%dT%H:%M:%SZ") for the date texts of
\* the model: fractions of a second are dropped, a missing time of day is
\* midnight, and "Z" is appended whatever the source said
ParsedDates ==
    ("2019-05-01T09:30:15.123456" :> "2019-05-01T09:30:15Z") @@
    ("2020-11-20T14:00:00" :> "2020-11-20T14:00:00Z") @@
    ("2021-02-03" :> "2021-02-03T00:00:00Z") @@
    ("2019-05-01 09:30:15" :> "2019-05-01T09:30:15Z")

\* a text dateutil cannot parse
BadDate == "not a date"

\* parse(v).strftime(...): None raises TypeError, "" and garbage ParserError
parse_strftime(v) ==
    IF v = None THEN Raise("TypeError")
    ELSE IF v \in DOMAIN ParsedDates THEN Return(ParsedDates[v])
    ELSE Raise("ParserError")

\* str.upper() on the unit and tag texts of the model
UpperCase ==
    ("kb" :> "KB") @@ ("mb" :> "MB") @@ ("Gb" :> "GB") @@ ("tb" :> "TB") @@
    ("snow" :> "SNOW") @@ ("Forest" :> "FOREST")

upper(s) == IF s \in DOMAIN UpperCase THEN UpperCase[s] ELSE s

\* float(text) for the size_value texts of the model, where it is a number
FloatOf == ("0" :> 0) @@ ("2" :> 2) @@ ("10" :> 10) @@ ("512" :> 512)

\* characters str.strip() removes
Whitespace == {SP, CR, LF}

RECURSIVE lstrip(_)
lstrip(s) == IF s # <<>> /\ Head(s) \in Whitespace THEN lstrip(Tail(s)) ELSE s

RECURSIVE rstrip(_)
rstrip(s) ==
    IF s # <<>> /\ s[Len(s)] \in Whitespace
    THEN rstrip(SubSeq(s, 1, Len(s) - 1)) ELSE s

\* str.strip()
strip(s) == rstrip(lstrip(s))

\* the JSON documents of the model and what json.loads makes of them
MaintainerSupport == "{\"name\": \"Support\", \"email\": \"envidat@wsl.ch\"}"
MaintainerPerson ==
    "{\"given_name\": \" Eva \", \"name\": \"Muster\", \"email\": \"eva@example.org\"}"
MaintainerOtherCase ==
    "{\"name\": \"Support\", \"email\": \"EnviDat@wsl.ch\"}"
MaintainerNoName == "{\"email\": \"eva@example.org\"}"
MaintainerNoEmail == "{\"name\": \"Muster\"}"
PublicationWSL == "{\"publisher\": \"WSL\", \"publication_year\": \"2020\"}"
EmptyObject == "{}"
Size2MB == "{\"size_value\": \"2\", \"size_units\": \"MB\"}"
Size10Default == "{\"size_value\": \"10\"}"
Size512Lower == "{\"size_value\": \"512\", \"size_units\": \"kb\"}"
SizeEmptyValue == "{\"size_value\": \"\", \"size_units\": \"GB\"}"
SizeBadUnit == "{\"size_value\": \"2\", \"size_units\": \"PB\"}"
SizeNullUnit == "{\"size_value\": \"2\", \"size_units\": null}"
SizeBadValue == "{\"size_value\": \"many\", \"size_units\": \"MB\"}"
Size10GB == "{\"size_value\": \"10\", \"size_units\": \"Gb\"}"
Size2TB == "{\"size_value\": \"2\", \"size_units\": \"tb\"}"
SizeNullValue == "{\"size_value\": null, \"size_units\": \"MB\"}"
\* a text that is no JSON document
BadJson == "{'size_value': '0'}"

JsonDocuments ==
    (MaintainerSupport :>
        [name |-> <<"S", "u", "p", "p", "o", "r", "t">>, email |-> "envidat@wsl.ch"]) @@
    (MaintainerPerson :>
        [given_name |-> <<SP, "E", "v", "a", SP>>,
         name |-> <<"M", "u", "s", "t", "e", "r">>,
         email |-> "eva@example.org"]) @@
    (MaintainerOtherCase :>
        [name |-> <<"S", "u", "p", "p", "o", "r", "t">>, email |-> "EnviDat@wsl.ch"]) @@
    (MaintainerNoName :> [email |-> "eva@example.org"]) @@
    (MaintainerNoEmail :> [name |-> <<"M", "u", "s", "t", "e", "r">>]) @@
    (PublicationWSL :> [publisher |-> "WSL", publication_year |-> "2020"]) @@
    (EmptyObject :> <<>>) @@
    (Size2MB :> [size_value |-> "2", size_units |-> "MB"]) @@
    (Size10Default :> [size_value |-> "10"]) @@
    (Size512Lower :> [size_value |-> "512", size_units |-> "kb"]) @@
    (SizeEmptyValue :> [size_value |-> "", size_units |-> "GB"]) @@
    (SizeBadUnit :> [size_value |-> "2", size_units |-> "PB"]) @@
    (SizeNullUnit :> [size_value |-> "2", size_units |-> None]) @@
    (SizeBadValue :> [size_value |-> "many", size_units |-> "MB"]) @@
    (Size10GB :> [size_value |-> "10", size_units |-> "Gb"]) @@
    (Size2TB :> [size_value |-> "2", size_units |-> "tb"]) @@
    (SizeNullValue :> [size_value |-> None, size_units |-> "MB"])

\* json.loads(v): None raises TypeError, a text that is no JSON JSONDecodeError
json_loads(v) ==
    IF v = None THEN Raise("TypeError")
    ELSE IF v \in DOMAIN JsonDocuments THEN Return(JsonDocuments[v])
    ELSE Raise("JSONDecodeError")

---------------------------------------------------------------------------
(* Resource -> distribution: src/main.py get_distribution_list *)

RightsWithPermission ==
    "NonCommercialWithPermission-CommercialWithPermission-ReferenceRequired"
RightsReferenceRequired ==
    "NonCommercialAllowed-CommercialAllowed-ReferenceRequired"
RightsReferenceNotRequired ==
    "NonCommercialAllowed-CommercialAllowed-ReferenceNotRequired"

license_mapping ==
    ("wsl-data" :> RightsWithPermission) @@
    ("odc-odbl" :> RightsReferenceRequired) @@
    ("cc-by" :> RightsReferenceRequired) @@
    ("cc-by-sa" :> RightsReferenceRequired) @@
    ("cc-zero" :> RightsReferenceNotRequired) @@
    ("CC0-1.0" :> RightsReferenceNotRequired)

\* a mutant of resource_license: a record without license_id is looked up
\* as an unknown code instead of as odc-odbl
resource_license_missing_as_unknown(package) ==
    Get(license_mapping, Get(package, "license_id", "unknown"), RightsWithPermission)

\* dataset_license = package.get("license_id", "odc-odbl"), then the table
\* lookup with the wsl-data string as its default
resource_license(package) ==
    LET dataset_license == Get(package, "license_id", "odc-odbl")
    IN  Get(license_mapping, dataset_license, RightsWithPermission)

\* A byte count is kept as mantissa * 1024^exp1024, because 1024^4 does not
\* fit the model checker's integers; the mantissa is not a multiple of 1024
\* unless the count is 0, so equal counts are equal values.
RECURSIVE ByteCount(_, _)
ByteCount(mantissa, exp1024) ==
    IF mantissa = 0 THEN [mantissa |-> 0, exp1024 |-> 0]
    ELSE IF mantissa % 1024 = 0 THEN ByteCount(mantissa \div 1024, exp1024 + 1)
    ELSE [mantissa |-> mantissa, exp1024 |-> exp1024]

\* a mutant of sizes_dict: MB counts 1024 bytes, as KB does
sizes_dict_mb_as_kb == ("KB" :> 1) @@ ("MB" :> 1) @@ ("GB" :> 3) @@ ("TB" :> 4)

\* sizes_dict, each multiplier as its power of 1024:
\* KB 1024, MB 1048576, GB 1073741824, TB 1099511627776
sizes_dict == ("KB" :> 1) @@ ("MB" :> 2) @@ ("GB" :> 3) @@ ("TB" :> 4)

\* a mutant of the try block: a null size_units counts as the default "KB"
size_from_resource_size_null_unit_as_kb(resource) ==
    LET rs == Get(resource, "resource_size", "")
    IN  IF rs = None THEN Raise("TypeError")
        ELSE IF rs = "" THEN Return(ByteCount(0, 0))
        ELSE LET loaded == json_loads(rs)
             IN  IF ~loaded.ok THEN loaded
                 ELSE LET obj == loaded.value
                          resource_size_str == Get(obj, "size_value", "")
                          given == Get(obj, "size_units", "KB")
                          units == IF given = None THEN "KB" ELSE given
                      IN  IF resource_size_str = None THEN Raise("TypeError")
                          ELSE IF resource_size_str = ""
                               THEN Return(ByteCount(0, 0))
                          ELSE IF resource_size_str \notin DOMAIN FloatOf
                               THEN Raise("ValueError")
                          ELSE IF upper(units) \notin DOMAIN sizes_dict
                               THEN Raise("KeyError")
                          ELSE Return(ByteCount(FloatOf[resource_size_str],
                                                sizes_dict[upper(units)]))

\* the body of the try block that reads resource_size: the computed size, or
\* the exception that the except clause turns into 0
size_from_resource_size(resource) ==
    LET rs == Get(resource, "resource_size", "")
    IN  IF rs = None THEN Raise("TypeError")
        ELSE IF rs = "" THEN Return(ByteCount(0, 0))
        ELSE LET loaded == json_loads(rs)
             IN  IF ~loaded.ok THEN loaded
                 ELSE LET obj == loaded.value
                          resource_size_str == Get(obj, "size_value", "")
                          units == Get(obj, "size_units", "KB")
                      IN  IF resource_size_str = None THEN Raise("TypeError")
                          ELSE IF resource_size_str = ""
                               THEN Return(ByteCount(0, 0))
                          ELSE IF resource_size_str \notin DOMAIN FloatOf
                               THEN Raise("ValueError")
                          ELSE IF units = None THEN Raise("AttributeError")
                          ELSE IF upper(units) \notin DOMAIN sizes_dict
                               THEN Raise("KeyError")
                          ELSE Return(ByteCount(FloatOf[resource_size_str],
                                                sizes_dict[upper(units)]))

\* resource.get("size", False), then the resource_size block when it is falsy
\* (an absent size is modelled as 0: False and 0 are both falsy)
byte_size(resource) ==
    LET direct == Get(resource, "size", 0)
    IN  IF direct # 0 THEN ByteCount(direct, 0)
        ELSE LET computed == size_from_resource_size(resource)
             IN  IF computed.ok THEN computed.value ELSE ByteCount(0, 0)

\* "No description"
NoDescription ==
    <<"N", "o", SP, "d", "e", "s", "c", "r", "i", "p", "t", "i", "o", "n">>

DateTimeType == "http://www.w3.org/2001/XMLSchema#dateTime"
AnyURIType == "http://www.w3.org/2001/XMLSchema#anyURI"

\* resource.get("last_modified", resource.get("metadata_modified", ""))
modified_source(resource) ==
    Get(resource, "last_modified", Get(resource, "metadata_modified", ""))

\* a mutant of the loop body: mimetype_inner is looked at before mimetype
distribution_of_inner_first(package, package_name, rights, resource) ==
    LET resource_id == Get(resource, "id", None)
        resource_name == Get(resource, "name", resource_id)
        resource_notes == clean_text(Get(resource, "description", NoDescription))
        id_for_url == Get(resource, "id", "")
        resource_url == Get(resource, "url", None)
        mimetype == Get(resource, "mimetype_inner", "")
        resource_mimetype ==
            IF Truthy(mimetype) THEN mimetype
            ELSE Get(resource, "mimetype", None)
        resource_format == Get(resource, "format", None)
    IN  IF id_for_url = None THEN Raise("TypeError")
        ELSE IF "created" \notin DOMAIN resource THEN Raise("KeyError")
        ELSE LET created == parse_strftime(resource["created"])
             IN  IF ~created.ok THEN created
        ELSE LET resource_creation == created.value
                 modified ==
                    IF Truthy(modified_source(resource))
                    THEN parse_strftime(modified_source(resource))
                    ELSE Return(resource_creation)
             IN  IF ~modified.ok THEN modified
        ELSE IF resource_id = None THEN Raise("TypeError")
        ELSE Return(
            "dcat:Distribution" :> (
                ("@rdf:about" :>
                    "https://www.envidat.ch/dataset/" \o package_name
                        \o "/resource/" \o id_for_url) @@
                ("dct:identifier" :> package["name"] \o "." \o resource_id) @@
                ("dct:title" :> [lang |-> "en", text |-> resource_name]) @@
                ("dct:description" :> [lang |-> "en", text |-> resource_notes]) @@
                ("dct:issued" :>
                    [datatype |-> DateTimeType, text |-> resource_creation]) @@
                ("dct:modified" :>
                    [datatype |-> DateTimeType, text |-> modified.value]) @@
                ("dct:language" :> "en") @@
                ("dcat:accessURL" :>
                    [datatype |-> AnyURIType, text |-> resource_url]) @@
                ("dct:rights" :> rights) @@
                ("dcat:byteSize" :> byte_size(resource)) @@
                (IF Truthy(resource_mimetype)
                 THEN "dcat:mediaType" :> resource_mimetype ELSE <<>>) @@
                (IF Truthy(resource_format)
                 THEN "dct:format" :> resource_format ELSE <<>>)))

\* one iteration of the loop over package["resources"]: the distribution, or
\* the exception the iteration raises
distribution_of(package, package_name, rights, resource) ==
    LET resource_id == Get(resource, "id", None)
        resource_name == Get(resource, "name", resource_id)
        resource_notes == clean_text(Get(resource, "description", NoDescription))
        id_for_url == Get(resource, "id", "")
        resource_url == Get(resource, "url", None)
        mimetype == Get(resource, "mimetype", "")
        resource_mimetype ==
            IF Truthy(mimetype) THEN mimetype
            ELSE Get(resource, "mimetype_inner", None)
        resource_format == Get(resource, "format", None)
    IN  IF id_for_url = None THEN Raise("TypeError")
        ELSE IF "created" \notin DOMAIN resource THEN Raise("KeyError")
        ELSE LET created == parse_strftime(resource["created"])
             IN  IF ~created.ok THEN created
        ELSE LET resource_creation == created.value
                 modified ==
                    IF Truthy(modified_source(resource))
                    THEN parse_strftime(modified_source(resource))
                    ELSE Return(resource_creation)
             IN  IF ~modified.ok THEN modified
        ELSE IF resource_id = None THEN Raise("TypeError")
        ELSE Return(
            "dcat:Distribution" :> (
                ("@rdf:about" :>
                    "https://www.envidat.ch/dataset/" \o package_name
                        \o "/resource/" \o id_for_url) @@
                ("dct:identifier" :> package["name"] \o "." \o resource_id) @@
                ("dct:title" :> [lang |-> "en", text |-> resource_name]) @@
                ("dct:description" :> [lang |-> "en", text |-> resource_notes]) @@
                ("dct:issued" :>
                    [datatype |-> DateTimeType, text |-> resource_creation]) @@
                ("dct:modified" :>
                    [datatype |-> DateTimeType, text |-> modified.value]) @@
                ("dct:language" :> "en") @@
                ("dcat:accessURL" :>
                    [datatype |-> AnyURIType, text |-> resource_url]) @@
                ("dct:rights" :> rights) @@
                ("dcat:byteSize" :> byte_size(resource)) @@
                (IF Truthy(resource_mimetype)
                 THEN "dcat:mediaType" :> resource_mimetype ELSE <<>>) @@
                (IF Truthy(resource_format)
                 THEN "dct:format" :> resource_format ELSE <<>>)))

\* a mutant of the loop: each distribution is put in front of the list
RECURSIVE distribution_loop_prepend(_, _, _, _, _)
distribution_loop_prepend(package, package_name, rights, resources, distribution_list) ==
    IF resources = <<>> THEN Return(distribution_list)
    ELSE LET d == distribution_of(package, package_name, rights, Head(resources))
         IN  IF ~d.ok THEN d
             ELSE distribution_loop_prepend(package, package_name, rights,
                                            Tail(resources),
                                            <<d.value>> \o distribution_list)

\* the loop: distributions are appended in resource order, and the first
\* exception ends the call
RECURSIVE distribution_loop(_, _, _, _, _)
distribution_loop(package, package_name, rights, resources, distribution_list) ==
    IF resources = <<>> THEN Return(distribution_list)
    ELSE LET d == distribution_of(package, package_name, rights, Head(resources))
         IN  IF ~d.ok THEN d
             ELSE distribution_loop(package, package_name, rights,
                                    Tail(resources),
                                    distribution_list \o <<d.value>>)

get_distribution_list(package, package_name) ==
    distribution_loop(package, package_name, resource_license(package),
                      Get(package, "resources", <<>>), <<>>)

---------------------------------------------------------------------------
(* Record -> dataset: src/main.py get_opendataswiss_ordered_dict *)

\* Python's None where a dict is expected (a value comparable with a dict)
NoDict == [none |-> TRUE]

\* a mutant of _get_keywords: a tag without display_name is dropped
RECURSIVE keywords_loop_drops_unnamed(_, _)
keywords_loop_drops_unnamed(tags, keywords) ==
    IF tags = <<>> THEN keywords
    ELSE keywords_loop_drops_unnamed(
            Tail(tags),
            IF "display_name" \in DOMAIN Head(tags)
            THEN keywords \o <<upper(Head(tags)["display_name"])>>
            ELSE keywords)

\* _get_keywords: one upper-cased display_name per tag, in tag order
RECURSIVE keywords_loop(_, _)
keywords_loop(tags, keywords) ==
    IF tags = <<>> THEN keywords
    ELSE keywords_loop(Tail(tags),
                       keywords \o <<upper(Get(Head(tags), "display_name", ""))>>)

get_keywords(package) == keywords_loop(Get(package, "tags", <<>>), <<>>)

\* the language-tagged keyword entries of the dataset
keywords_list(package) ==
    [k \in 1..Len(get_keywords(package)) |->
        [lang |-> "en", text |-> get_keywords(package)[k]]]

SupportMail == "mailto:envidat@wsl.ch"

\* "EnviDat Support"
SupportName ==
    <<"E", "n", "v", "i", "D", "a", "t", SP, "S", "u", "p", "p", "o", "r", "t">>

organization_contact_point ==
    "vcard:Organization" :> [fn |-> SupportName, hasEmail |-> SupportMail]

\* a mutant of contact_points: the organization is never added
contact_points_individual_only(maintainer) ==
    LET given == Get(maintainer, "given_name", <<>>)
        prefix == IF given # <<>> THEN strip(given) \o <<SP>> ELSE <<>>
    IN  IF "name" \notin DOMAIN maintainer THEN Raise("KeyError")
        ELSE IF "email" \notin DOMAIN maintainer THEN Raise("KeyError")
        ELSE Return(<< "vcard:Individual" :>
                        [fn |-> prefix \o maintainer["name"],
                         hasEmail |-> "mailto:" \o maintainer["email"]] >>)

\* the contact point list built from the parsed maintainer, or the KeyError
\* of a maintainer without name or email
contact_points(maintainer) ==
    LET given == Get(maintainer, "given_name", <<>>)
        prefix == IF given # <<>> THEN strip(given) \o <<SP>> ELSE <<>>
    IN  IF "name" \notin DOMAIN maintainer THEN Raise("KeyError")
        ELSE IF "email" \notin DOMAIN maintainer THEN Raise("KeyError")
        ELSE LET maintainer_name == prefix \o maintainer["name"]
                 maintainer_email == "mailto:" \o maintainer["email"]
                 individual_contact_point ==
                    "vcard:Individual" :>
                        [fn |-> maintainer_name, hasEmail |-> maintainer_email]
             IN  IF maintainer_email = SupportMail
                 THEN Return(<<individual_contact_point>>)
                 ELSE Return(<<individual_contact_point,
                               organization_contact_point>>)

\* the try block of get_opendataswiss_ordered_dict: the dataset, or the
\* exception raised on the way
ordered_dict_body(package) ==
    IF "name" \notin DOMAIN package THEN Raise("KeyError")
    ELSE IF "id" \notin DOMAIN package THEN Raise("KeyError")
    ELSE IF "title" \notin DOMAIN package THEN Raise("KeyError")
    ELSE
    LET package_name == package["name"]
        package_url == "https://www.envidat.ch/#/metadata/" \o package_name
        description == clean_text(Get(package, "notes", <<>>))
        creation_date == Get(package, "metadata_created", None)
        issued ==
            IF Truthy(creation_date) THEN parse_strftime(creation_date)
            ELSE Return(None)
        modification_date == Get(package, "metadata_modified", creation_date)
        modified ==
            IF Truthy(modification_date) THEN parse_strftime(modification_date)
            ELSE Return(None)
        publication == json_loads(Get(package, "publication", EmptyObject))
        loaded_maintainer == json_loads(Get(package, "maintainer", EmptyObject))
    IN  IF ~issued.ok THEN issued
        ELSE IF ~modified.ok THEN modified
        ELSE IF ~publication.ok THEN publication
        ELSE IF ~loaded_maintainer.ok THEN loaded_maintainer
        ELSE LET contact == contact_points(loaded_maintainer.value)
             IN  IF ~contact.ok THEN contact
        ELSE LET distributions == get_distribution_list(package, package_name)
             IN  IF ~distributions.ok THEN distributions
        ELSE Return(
            "dcat:Dataset" :> (
                ("@rdf:about" :> package_url) @@
                ("dct:identifier" :> package["id"] \o "@envidat") @@
                ("dct:title" :> [lang |-> "en", text |-> package["title"]]) @@
                ("dct:description" :> [lang |-> "en", text |-> description]) @@
                (IF Truthy(creation_date)
                 THEN "dct:issued" :>
                        [datatype |-> DateTimeType, text |-> issued.value]
                 ELSE <<>>) @@
                (IF Truthy(modification_date)
                 THEN "dct:modified" :>
                        [datatype |-> DateTimeType, text |-> modified.value]
                 ELSE <<>>) @@
                ("dct:publisher" :>
                    [label |-> Get(publication.value, "publisher", "")]) @@
                ("dcat:contactPoint" :> contact.value) @@
                ("dcat:theme" :> "http://opendata.swiss/themes/education") @@
                ("dct:language" :> "en") @@
                ("dcat:keyword" :> keywords_list(package)) @@
                ("dcat:landingPage" :> package_url) @@
                ("dcat:distribution" :> distributions.value)))

\* a mutant of get_opendataswiss_ordered_dict: the landing page is built
\* from the record's id instead of its name
get_opendataswiss_ordered_dict_landing_by_id(package) ==
    LET body == ordered_dict_body(package)
    IN  IF body.ok
        THEN "dcat:Dataset" :> (
                ("dcat:landingPage" :>
                    "https://www.envidat.ch/#/metadata/" \o package["id"]) @@
                body.value["dcat:Dataset"])
        ELSE NoDict

\* get_opendataswiss_ordered_dict: the dataset, or None after any exception
get_opendataswiss_ordered_dict(package) ==
    LET body == ordered_dict_body(package)
    IN  IF body.ok THEN body.value ELSE NoDict

---------------------------------------------------------------------------
(* Fetching the record list: src/main.py _get_url and                      *)
(* get_metadata_list_with_resources                                        *)

\* Whether the local r of _get_url is bound when the except clause runs:
\* requests.get raises before r is assigned, raise_for_status after
r_is_bound(resp) == resp.kind \in {"ok", "HTTPError"}

\* _get_url: what it returns or raises, and the error lines it logs. Every
\* except clause formats r.request.url, which raises UnboundLocalError when
\* r was never assigned.
get_url(resp) ==
    IF resp.kind = "ok" THEN [result |-> Return("response"), logged |-> <<>>]
    ELSE IF resp.kind = "ConnectionError" THEN
        IF r_is_bound(resp)
        THEN [result |-> Return(None),
              logged |-> <<"Could not connect to internet on get", "ConnectionError">>]
        ELSE [result |-> Raise("UnboundLocalError"), logged |-> <<>>]
    ELSE IF resp.kind = "HTTPError" THEN
        IF r_is_bound(resp)
        THEN [result |-> Return(None),
              logged |-> <<"HTTP response error on get", "HTTPError">>]
        ELSE [result |-> Raise("UnboundLocalError"), logged |-> <<>>]
    ELSE IF resp.kind = "RequestException" THEN
        IF r_is_bound(resp)
        THEN [result |-> Return(None),
              logged |-> <<"Request error on get", "Request", "Response">>]
        ELSE [result |-> Raise("UnboundLocalError"), logged |-> <<>>]
    ELSE
        IF r_is_bound(resp)
        THEN [result |-> Return(None),
              logged |-> <<"Exception", "Unhandled exception occured on get">>]
        ELSE [result |-> Raise("UnboundLocalError"), logged |-> <<"Exception">>]

\* the order of Python's string comparison on the record names of the model
NameRank == ("alpha" :> 1) @@ ("beta" :> 2) @@ ("gamma" :> 3)

\* a mutant of the sort step: x goes in front of the elements of its own name
RECURSIVE insert_by_name_before_equals(_, _)
insert_by_name_before_equals(s, x) ==
    IF s = <<>> THEN <<x>>
    ELSE IF NameRank[x["name"]] <= NameRank[s[Len(s)]["name"]]
    THEN insert_by_name_before_equals(SubSeq(s, 1, Len(s) - 1), x)
            \o <<s[Len(s)]>>
    ELSE s \o <<x>>

\* one step of the stable sort: x goes behind every element whose name is
\* not greater than its own
RECURSIVE insert_by_name(_, _)
insert_by_name(s, x) ==
    IF s = <<>> THEN <<x>>
    ELSE IF NameRank[x["name"]] < NameRank[s[Len(s)]["name"]]
    THEN insert_by_name(SubSeq(s, 1, Len(s) - 1), x) \o <<s[Len(s)]>>
    ELSE s \o <<x>>

RECURSIVE sort_loop(_, _)
sort_loop(rest, done) ==
    IF rest = <<>> THEN done
    ELSE sort_loop(Tail(rest), insert_by_name(done, Head(rest)))

\* sorted(list, key=lambda x: x["name"]): KeyError when a record has no name
sorted_by_name(list) ==
    IF \E k \in 1..Len(list) : "name" \notin DOMAIN list[k]
    THEN Raise("KeyError")
    ELSE Return(sort_loop(list, <<>>))

\* get_metadata_list_with_resources(sort_result=True): what it returns or
\* raises, and the error lines logged on the way. After _get_url returned
\* None, the except clause logs the AttributeError and then formats
\* package_names_with_resources, which was never assigned.
get_metadata_list_with_resources(resp) ==
    LET got == get_url(resp)
    IN  IF ~got.result.ok THEN got
        ELSE IF got.result.value = None
        THEN [result |-> Raise("UnboundLocalError"),
              logged |-> got.logged \o <<"AttributeError">>]
        ELSE [result |-> sorted_by_name(resp.result), logged |-> got.logged]

---------------------------------------------------------------------------
(* Catalog assembly: src/main.py get_wrapper_dict, and xmltodict's unparse *)

\* the ten namespace declarations, in the order they are assigned
Namespaces ==
    << <<"dct", "http://purl.org/dc/terms/">>,
       <<"dc", "http://purl.org/dc/elements/1.1/">>,
       <<"dcat", "http://www.w3.org/ns/dcat#">>,
       <<"foaf", "http://xmlns.com/foaf/0.1/">>,
       <<"xsd", "http://www.w3.org/2001/XMLSchema#">>,
       <<"rdfs", "http://www.w3.org/2000/01/rdf-schema#">>,
       <<"rdf", "http://www.w3.org/1999/02/22-rdf-syntax-ns#">>,
       <<"vcard", "http://www.w3.org/2006/vcard/ns#">>,
       <<"odrs", "http://schema.theodi.org/odrs#">>,
       <<"schema", "http://schema.org/">> >>

\* a mutant of get_wrapper_dict: dc is declared before dct
get_wrapper_dict_dc_first(packages) ==
    LET order == <<2, 1>> \o [k \in 1..(Len(Namespaces) - 2) |-> k + 2]
        header == [k \in 1..Len(Namespaces) |->
                     <<"@xmlns:" \o Namespaces[order[k]][1],
                       Namespaces[order[k]][2]>>]
        catalog_dict ==
            header \o << <<"dcat:Catalog", ("dcat:dataset" :> packages)>> >>
    IN  << <<"rdf:RDF", catalog_dict>> >>

\* get_wrapper_dict: an OrderedDict is the sequence of its (key, value)
\* pairs in insertion order
get_wrapper_dict(packages) ==
    LET header == [k \in 1..Len(Namespaces) |->
                     <<"@xmlns:" \o Namespaces[k][1], Namespaces[k][2]>>]
        catalog_dict ==
            header \o << <<"dcat:Catalog", ("dcat:dataset" :> packages)>> >>
    IN  << <<"rdf:RDF", catalog_dict>> >>

\* the attribute a key that starts with "@" names: the key without the "@"
attribute_name(key) ==
    CHOOSE name \in {"xmlns:" \o Namespaces[k][1] : k \in 1..Len(Namespaces)} :
        "@" \o name = key

\* unparse(wrapper_dict): the document as a tree. The "@" keys of the root
\* become its attributes, in order; a list value becomes one element per
\* item, so an empty list leaves dcat:Catalog without children.
unparse(wrapper_dict) ==
    LET root == wrapper_dict[1]
        entries == root[2]
        datasets == entries[Len(entries)][2]["dcat:dataset"]
    IN  [tag |-> root[1],
         attributes |->
            [k \in 1..(Len(entries) - 1) |->
                <<attribute_name(entries[k][1]), entries[k][2]>>],
         children |->
            << [tag |-> entries[Len(entries)][1],
                children |->
                    [k \in 1..Len(datasets) |->
                        [tag |-> "dcat:dataset", content |-> datasets[k]]]] >>]

---------------------------------------------------------------------------
(* The parts of the state a specification does not use stay as they are *)

MainIdle ==
    /\ pc = "idle"
    /\ response = [kind |-> "pending"]
    /\ attempts = 0
    /\ metadata_list = <<>>
    /\ idx = 1
    /\ converted_packages = <<>>
    /\ xml_data = NoDict
    /\ log = <<>>
    /\ raised = "none"
    /\ bucket = "unset"
    /\ s3_calls = <<>>

MapperIdle ==
    /\ record = NoDict
    /\ package_dict = NoDict
    /\ mapped = FALSE

SanitizerIdle ==
    /\ text = <<>>
    /\ cleaned = <<>>
    /\ recleaned = <<>>
    /\ passes = 0

---------------------------------------------------------------------------
(* SpecSanitizer: the sanitizer applied to a text, then to its own output *)

Alphabet == {SP, HASH, US, CR, LF, "a"}

BoundedTexts == UNION {[1..n -> Alphabet] : n \in 0..MaxLen}

\* "## Title ## text__ here  now\r\n\n"
ExampleText ==
    <<HASH, HASH, SP, "T", "i", "t", "l", "e", SP, HASH, HASH, SP,
      "t", "e", "x", "t", US, US, SP, "h", "e", "r", "e", SP, SP,
      "n", "o", "w", CR, LF, LF>>

InitSanitizer ==
    /\ text \in BoundedTexts \cup {ExampleText}
    /\ cleaned = <<>>
    /\ recleaned = <<>>
    /\ passes = 0
    /\ MainIdle
    /\ MapperIdle

CleanOnce ==
    /\ passes = 0
    /\ cleaned' = clean_text(text)
    /\ passes' = 1
    /\ UNCHANGED <<text, recleaned, mainVars, mapperVars>>

CleanAgain ==
    /\ passes = 1
    /\ recleaned' = clean_text(cleaned)
    /\ passes' = 2
    /\ UNCHANGED <<text, cleaned, mainVars, mapperVars>>

NextSanitizer == CleanOnce \/ CleanAgain

SpecSanitizer == InitSanitizer /\ [][NextSanitizer]_vars

---------------------------------------------------------------------------
(* Input records and resources *)

\* marks, while an input is being built, a key that the dict does not hold
Absent == "<absent>"

\* the one-entry dict {key: v}, or the empty dict when the key is to be absent
Entry(key, v) == IF v = Absent THEN <<>> ELSE key :> v

\* d without key
Without(d, key) == [k \in DOMAIN d \ {key} |-> d[k]]

\* d with d[key] = v
With(d, key, v) == (key :> v) @@ d

D1 == "2019-05-01T09:30:15.123456"
D2 == "2020-11-20T14:00:00"
D3 == "2021-02-03"

\* a complete resource with a direct size
PlainResource ==
    [id |-> "r1", name |-> "data.csv", description |-> <<HASH, SP, "a">>,
     created |-> D1, last_modified |-> D2, url |-> "https://host/r1",
     size |-> 2048, mimetype |-> "text/csv", format |-> "CSV"]

\* a resource with only the keys the mapper cannot do without
BareResource == [id |-> "r2", created |-> D3, url |-> "https://host/r2"]

\* resources that differ in the three date fields
DateResources ==
    { [id |-> "r3", url |-> "https://host/r3"] @@ Entry("created", c)
        @@ Entry("last_modified", lm) @@ Entry("metadata_modified", mm) :
        c \in {D1},
        lm \in {Absent, None, "", D2, BadDate},
        mm \in {Absent, None, D3} }

\* resources with one defect each
DefectiveResources ==
    { Without(BareResource, "created"),
      With(BareResource, "created", BadDate),
      With(BareResource, "created", None),
      Without(BareResource, "id"),
      Without(BareResource, "url"),
      With(BareResource, "metadata_modified", BadDate) }

\* resources that differ in how their size is given
SizeResources ==
    { BareResource @@ Entry("size", sz) @@ Entry("resource_size", rs) :
        sz \in {Absent},
        rs \in {Size2MB, Size10Default, Size512Lower, SizeEmptyValue,
                SizeBadUnit, SizeNullUnit, SizeBadValue, Size10GB, Size2TB,
                SizeNullValue, BadJson, None, ""} }
    \cup { With(With(BareResource, "size", 0), "resource_size", Size2MB),
           With(With(BareResource, "size", 1024), "resource_size", Size2MB) }

\* resources that differ in media type and format
MediaResources ==
    { BareResource @@ Entry("mimetype", mt) @@ Entry("mimetype_inner", mi)
        @@ Entry("format", f) :
        mt \in {Absent, None, "", "text/csv"},
        mi \in {Absent, "", "application/zip"},
        f \in {Absent, "", "CSV"} }

ResourceSamples ==
    {PlainResource} \cup DateResources \cup DefectiveResources
        \cup SizeResources \cup MediaResources

\* the lists of at most n elements of S
ListsOf(S, n) == UNION {[1..k -> S] : k \in 0..n}

\* a complete record without resources
BasePackage ==
    [name |-> "alpha", id |-> "id-1", title |-> "Alpha data",
     notes |-> <<HASH, HASH, SP, "a", SP, SP, "a">>,
     metadata_created |-> D1, metadata_modified |-> D2,
     publication |-> PublicationWSL, maintainer |-> MaintainerPerson,
     license_id |-> "cc-by",
     tags |-> <<[display_name |-> "snow"], [name |-> "untitled"],
                [display_name |-> "Forest"]>>]

LicenseCodes ==
    {Absent, None, "wsl-data", "odc-odbl", "cc-by", "cc-by-sa", "cc-zero",
     "CC0-1.0", "other-closed"}

\* records that differ in license and carry well-formed resources
LicensedPackages ==
    { Without(BasePackage, "license_id") @@ Entry("license_id", lic)
        @@ ("resources" :> rs) :
        lic \in LicenseCodes,
        rs \in ListsOf({PlainResource, BareResource}, MaxResources) }

\* s with x put in as its k-th element
InsertAt(s, k, x) == SubSeq(s, 1, k - 1) \o <<x>> \o SubSeq(s, k, Len(s))

\* resource lists: any one sample, at any place among well-formed resources
ResourceLists ==
    {<<>>} \cup
    UNION { { InsertAt(others, k, r) :
                k \in 1..(Len(others) + 1), r \in ResourceSamples } :
            others \in ListsOf({PlainResource, BareResource},
                               MaxResources - 1) }

\* records that differ in their resources
ResourcePackages ==
    { With(BasePackage, "resources", rs) : rs \in ResourceLists }

\* records that differ in their own two dates
DatedPackages ==
    { Without(Without(BasePackage, "metadata_created"), "metadata_modified")
        @@ Entry("metadata_created", c) @@ Entry("metadata_modified", m)
        @@ ("resources" :> <<BareResource>>) :
        c \in {Absent, None, "", D1, BadDate},
        m \in {Absent, None, "", D2, BadDate} }

\* records that lack a required field, or whose maintainer or publication
\* differs
PartialPackages ==
    { Without(BasePackage, k) :
        k \in {"name", "id", "title", "maintainer", "publication", "notes",
               "tags"} }
    \cup { With(BasePackage, "maintainer", m) :
            m \in {MaintainerSupport, MaintainerOtherCase, MaintainerNoName,
                   MaintainerNoEmail, EmptyObject, BadJson, None} }
    \cup { With(BasePackage, "publication", pb) :
            pb \in {EmptyObject, BadJson, None} }

\* tags with a display_name in lower, mixed and upper case, and without one
TagSamples ==
    { [display_name |-> "snow"], [display_name |-> "Forest"],
      [display_name |-> "SNOW"], [name |-> "untitled"] }

\* records that differ in their tags
TaggedPackages ==
    { With(With(BasePackage, "tags", tags), "resources", <<BareResource>>) :
        tags \in ListsOf(TagSamples, MaxResources) }

MapperInputs ==
    LicensedPackages \cup ResourcePackages \cup DatedPackages
        \cup PartialPackages \cup TaggedPackages

---------------------------------------------------------------------------
(* Spec: main() -- src/main.py main, envidat_to_opendataswiss_converter,   *)
(* and the storage wrappers of src/utils/s3.py                             *)

\* a complete record with one resource
ValidPackage(name, id, maintainer) ==
    With(With(With(With(BasePackage, "name", name), "id", id),
              "maintainer", maintainer),
         "resources", <<PlainResource>>)

\* the records the catalog API may return
PipelineRecords ==
    { ValidPackage("alpha", "id-1", MaintainerPerson),
      ValidPackage("beta", "id-2", MaintainerSupport),
      ValidPackage("beta", "id-3", MaintainerPerson),
      ValidPackage("gamma", "id-4", MaintainerPerson),
      Without(ValidPackage("beta", "id-5", MaintainerPerson), "maintainer"),
      Without(ValidPackage("alpha", "id-6", MaintainerPerson), "title"),
      Without(ValidPackage("gamma", "id-7", MaintainerPerson), "id"),
      Without(ValidPackage("beta", "id-8", MaintainerPerson), "name"),
      With(ValidPackage("alpha", "id-9", MaintainerPerson), "resources",
           <<PlainResource, Without(BareResource, "created")>>) }

\* what the one request to the catalog API can come to
Responses ==
    { [kind |-> "ok", result |-> list] :
        list \in ListsOf(PipelineRecords, MaxRecords) }
    \cup { [kind |-> k] :
            k \in {"ConnectionError", "HTTPError", "RequestException",
                   "Exception"} }

\* an error line of the log; package is the record it prints, if any
Line(msg, about) == [msg |-> msg, package |-> about]

Lines(msgs) == [k \in 1..Len(msgs) |-> Line(msgs[k], NoDict)]

XmlName == "envidat_export_opendataswiss.xml"

Init ==
    /\ pc = "fetch"
    /\ response = [kind |-> "pending"]
    /\ attempts = 0
    /\ metadata_list = <<>>
    /\ idx = 1
    /\ converted_packages = <<>>
    /\ xml_data = NoDict
    /\ log = <<>>
    /\ raised = "none"
    /\ bucket = "unset"
    /\ s3_calls = <<>>
    /\ MapperIdle
    /\ SanitizerIdle

\* metadata_list = get_metadata_list_with_resources(sort_result=True): one
\* request, then the sort; an exception leaves the converter and main()
FetchMetadataList ==
    /\ pc = "fetch"
    /\ \E resp \in Responses :
        LET out == get_metadata_list_with_resources(resp)
        IN  /\ response' = resp
            /\ attempts' = attempts + 1
            /\ log' = log \o Lines(out.logged)
            /\ IF out.result.ok
               THEN /\ metadata_list' = out.result.value
                    /\ pc' = "convert"
                    /\ raised' = raised
               ELSE /\ metadata_list' = metadata_list
                    /\ pc' = "raised"
                    /\ raised' = out.result.exc
    /\ UNCHANGED <<idx, converted_packages, xml_data, bucket, s3_calls,
                   mapperVars, sanitizerVars>>

\* a mutant of ConvertNext: the first record that fails to convert ends the
\* loop, as if the exception reached the try around the loop
ConvertNext_abort_on_failure ==
    /\ pc = "convert"
    /\ idx <= Len(metadata_list)
    /\ LET current == metadata_list[idx]
           body == ordered_dict_body(current)
       IN  IF body.ok
           THEN /\ converted_packages' = converted_packages \o <<body.value>>
                /\ idx' = idx + 1
                /\ log' = log
           ELSE /\ converted_packages' = converted_packages
                /\ idx' = Len(metadata_list) + 1
                /\ log' = log \o <<Line("ERROR: Cannot convert to OpenDataSwiss format.", NoDict),
                                   Line(body.exc, NoDict)>>
    /\ UNCHANGED <<pc, response, attempts, metadata_list, xml_data, raised,
                   bucket, s3_calls, mapperVars, sanitizerVars>>

\* a mutant of ConvertNext: the new dataset is put in front of the list
ConvertNext_prepend ==
    /\ pc = "convert"
    /\ idx <= Len(metadata_list)
    /\ LET current == metadata_list[idx]
           body == ordered_dict_body(current)
           current_dict == get_opendataswiss_ordered_dict(current)
       IN  IF current_dict # NoDict
           THEN /\ converted_packages' = <<current_dict>> \o converted_packages
                /\ log' = log
           ELSE /\ converted_packages' = converted_packages
                /\ log' = log \o <<Line("ERROR: Cannot convert", current),
                                   Line(body.exc, NoDict),
                                   Line("ERROR: Failed to convert", current)>>
    /\ idx' = idx + 1
    /\ UNCHANGED <<pc, response, attempts, metadata_list, xml_data, raised,
                   bucket, s3_calls, mapperVars, sanitizerVars>>

\* one iteration of the loop over metadata_list: the record is mapped and,
\* if a dataset came back, appended; otherwise the failure is logged (two
\* lines by the mapper, one by the loop) and the loop goes on
ConvertNext ==
    /\ pc = "convert"
    /\ idx <= Len(metadata_list)
    /\ LET current == metadata_list[idx]
           body == ordered_dict_body(current)
           current_dict == get_opendataswiss_ordered_dict(current)
       IN  IF current_dict # NoDict
           THEN /\ converted_packages' = converted_packages \o <<current_dict>>
                /\ log' = log
           ELSE /\ converted_packages' = converted_packages
                /\ log' = log \o <<Line("ERROR: Cannot convert", current),
                                   Line(body.exc, NoDict),
                                   Line("ERROR: Failed to convert", current)>>
    /\ idx' = idx + 1
    /\ UNCHANGED <<pc, response, attempts, metadata_list, xml_data, raised,
                   bucket, s3_calls, mapperVars, sanitizerVars>>

\* after the loop: the datasets are wrapped and serialised, and the
\* converter returns the document to main()
WrapCatalog ==
    /\ pc = "convert"
    /\ idx > Len(metadata_list)
    /\ xml_data' = unparse(get_wrapper_dict(converted_packages))
    /\ pc' = "connect"
    /\ UNCHANGED <<response, attempts, metadata_list, idx, converted_packages,
                   log, raised, bucket, s3_calls, mapperVars, sanitizerVars>>

\* s3_client = get_s3_connection(): builds the client, calls nothing yet
GetS3Connection ==
    /\ pc = "connect"
    /\ pc' = "create_bucket"
    /\ UNCHANGED <<response, attempts, metadata_list, idx, converted_packages,
                   xml_data, log, raised, bucket, s3_calls, mapperVars,
                   sanitizerVars>>

\* one call of a storage wrapper: its name, the key it was given, whether
\* the storage client did what it was asked, and what the wrapper returned
Call(name, key, client_ok, returned) ==
    [call |-> name, key |-> key, client_ok |-> client_ok, returned |-> returned]

\* bucket = create_s3_bucket(s3_client, public=True): the bucket, or None
\* after BucketAlreadyExists or any other exception (both logged)
CreateBucket ==
    /\ pc = "create_bucket"
    /\ \E outcome \in {"created", "BucketAlreadyExists", "Exception"} :
        /\ bucket' = IF outcome = "created" THEN "bucket" ELSE None
        /\ s3_calls' = s3_calls \o
                <<Call("create_s3_bucket", "", outcome = "created", bucket')>>
        /\ log' = IF outcome = "created" THEN log
                  ELSE log \o Lines(<<outcome, "Failed to create bucket">>)
    /\ pc' = "upload_xml"
    /\ UNCHANGED <<response, attempts, metadata_list, idx, converted_packages,
                   xml_data, raised, mapperVars, sanitizerVars>>

\* upload_to_s3_from_memory(bucket, key, data): True, or False after any
\* exception of bucket.upload_fileobj -- with bucket None, the
\* AttributeError of calling it on None
upload_to_s3_from_memory(key, next_pc) ==
    /\ \E client_ok \in BOOLEAN :
        LET uploaded == bucket # None /\ client_ok
        IN  /\ s3_calls' = s3_calls \o
                    <<Call("upload_to_s3_from_memory", key, uploaded,
                           IF uploaded THEN "True" ELSE "False")>>
            /\ log' = IF uploaded THEN log
                      ELSE log \o Lines(<<"Exception", "Failed to upload">>)
    /\ pc' = next_pc
    /\ UNCHANGED <<response, attempts, metadata_list, idx, converted_packages,
                   xml_data, raised, bucket, mapperVars, sanitizerVars>>

\* a mutant of the first upload: main skips it when it has no bucket
UploadXml_skipped_without_bucket ==
    /\ pc = "upload_xml"
    /\ IF bucket = None
       THEN /\ pc' = "static_config"
            /\ UNCHANGED <<response, attempts, metadata_list, idx,
                           converted_packages, xml_data, log, raised, bucket,
                           s3_calls, mapperVars, sanitizerVars>>
       ELSE upload_to_s3_from_memory(XmlName, "static_config")

UploadXml ==
    /\ pc = "upload_xml"
    /\ upload_to_s3_from_memory(XmlName, "static_config")

\* set_s3_static_config(s3_client): the policy, then the website
\* configuration; an exception of either is logged, and the function
\* returns None whatever happened
SetStaticConfig ==
    /\ pc = "static_config"
    /\ \E client_ok \in BOOLEAN :
        /\ s3_calls' = s3_calls \o
                <<Call("set_s3_static_config", "", client_ok, None)>>
        /\ log' = IF client_ok THEN log
                  ELSE log \o Lines(<<"Exception", "Failed to set static hosting">>)
    /\ pc' = "upload_index"
    /\ UNCHANGED <<response, attempts, metadata_list, idx, converted_packages,
                   xml_data, raised, bucket, mapperVars, sanitizerVars>>

\* index.html is generated and uploaded
UploadIndex ==
    /\ pc = "upload_index"
    /\ upload_to_s3_from_memory("index.html", "finish")

\* log.info("Done.")
Finish ==
    /\ pc = "finish"
    /\ pc' = "done"
    /\ UNCHANGED <<response, attempts, metadata_list, idx, converted_packages,
                   xml_data, log, raised, bucket, s3_calls, mapperVars,
                   sanitizerVars>>

Next ==
    \/ FetchMetadataList
    \/ ConvertNext
    \/ WrapCatalog
    \/ GetS3Connection
    \/ CreateBucket
    \/ UploadXml
    \/ SetStaticConfig
    \/ UploadIndex
    \/ Finish

Spec == Init /\ [][Next]_vars

\* main() is straight-line code and every storage wrapper it calls returns:
\* once the connection is there, each publishing step that can be taken is
\* taken
SpecFair ==
    /\ Init /\ [][Next]_vars
    /\ WF_vars(CreateBucket)
    /\ WF_vars(UploadXml)
    /\ WF_vars(SetStaticConfig)
    /\ WF_vars(UploadIndex)
    /\ WF_vars(Finish)

---------------------------------------------------------------------------
(* SpecMapper: get_opendataswiss_ordered_dict applied to one record *)

InitMapper ==
    /\ record \in MapperInputs
    /\ package_dict = NoDict
    /\ mapped = FALSE
    /\ MainIdle
    /\ SanitizerIdle

MapRecord ==
    /\ ~mapped
    /\ package_dict' = get_opendataswiss_ordered_dict(record)
    /\ mapped' = TRUE
    /\ UNCHANGED <<record, mainVars, sanitizerVars>>

NextMapper == MapRecord

SpecMapper == InitMapper /\ [][NextMapper]_vars

---------------------------------------------------------------------------
(* Claims about the sanitizer (checked under SpecSanitizer) *)

\* sub occurs in s as a run of consecutive characters
Contains(s, sub) ==
    \E k \in 1..(Len(s) - Len(sub) + 1) : SubSeq(s, k, k + Len(sub) - 1) = sub

\* s holds three consecutive characters that are all drawn from chars
HasRunOfThree(s, chars) ==
    \E k \in 1..(Len(s) - 2) : \A j \in k..(k + 2) : s[j] \in chars

\* "clean" as the claim C8 words it: no hash, no doubled space, no doubled newline
CleanAsClaimed(s) ==
    /\ ~Contains(s, <<HASH>>)
    /\ ~Contains(s, <<SP, SP>>)
    /\ ~Contains(s, <<LF, LF>>)

\* deleting every "__" from s joins neither three spaces nor three line breaks
NoRunsOnceJoined(s) ==
    LET joined == replace(s, <<US, US>>, <<>>)
    IN  /\ ~HasRunOfThree(joined, {SP})
        /\ ~HasRunOfThree(joined, {CR, LF})

\* C8 as stated: on every text without "#", without two consecutive spaces
\* and without two consecutive newlines (it may hold "_" and "\r"), cleaning
\* the cleaned text again changes nothing.
C8_IdempotentAsClaimed ==
    (passes = 2 /\ CleanAsClaimed(text)) => recleaned = cleaned

\* C8 amended: on every text without "#", without two consecutive spaces or
\* newlines, in which deleting every "__" leaves neither three consecutive
\* spaces nor three consecutive characters drawn from {"\r", "\n"}, cleaning
\* the cleaned text again changes nothing ("_", "__" and "\r" are allowed).
C8_IdempotentOnCleanText ==
    (/\ passes = 2
     /\ CleanAsClaimed(text)
     /\ NoRunsOnceJoined(text))
        => recleaned = cleaned

\* C8 witness: a clean text holding "__" and "\r" that the first pass changed
\* and the second pass left alone
C8_Witness ==
    /\ passes = 2
    /\ CleanAsClaimed(text)
    /\ NoRunsOnceJoined(text)
    /\ Contains(text, <<US, US>>)
    /\ Contains(text, <<CR, CR>>)
    /\ cleaned # text
    /\ recleaned = cleaned

\* "Title text here now\n"
ExampleAsClaimed ==
    <<"T", "i", "t", "l", "e", SP, "t", "e", "x", "t", SP,
      "h", "e", "r", "e", SP, "n", "o", "w", LF>>

\* " Title text here now\n\n"
ExampleCleaned ==
    <<SP, "T", "i", "t", "l", "e", SP, "t", "e", "x", "t", SP,
      "h", "e", "r", "e", SP, "n", "o", "w", LF, LF>>

\* C9 as stated: the worked example "## Title ## text__ here  now\r\n\n" is
\* cleaned to "Title text here now\n" (no leading space, one newline).
C9_ExampleAsClaimed ==
    (passes >= 1 /\ text = ExampleText) => cleaned = ExampleAsClaimed

\* C9 amended: the worked example "## Title ## text__ here  now\r\n\n" is
\* cleaned to " Title text here now\n\n": the space after the removed "##"
\* stays in front, and the three line breaks collapse to two, not one.
C9_ExampleCleaned ==
    (passes >= 1 /\ text = ExampleText) => cleaned = ExampleCleaned

\* C9 witness: the worked example has been cleaned
C9_Witness ==
    /\ passes = 1
    /\ text = ExampleText
    /\ Head(cleaned) = SP
    /\ Len(cleaned) = Len(ExampleAsClaimed) + 2

---------------------------------------------------------------------------
(* Claims about the mapper (checked under SpecMapper) *)

\* the mapper was called and returned a dataset
Converted == mapped /\ package_dict # NoDict

\* the resources of the mapped record, and the distributions made of them
Resources == Get(record, "resources", <<>>)
Distributions == package_dict["dcat:Dataset"]["dcat:distribution"]

\* the key is present and holds a non-empty value
Usable(d, key) == key \in DOMAIN d /\ Truthy(d[key])

\* the normalised form of a date text ("<none>" when it has none)
Normalised(v) == IF v \in DOMAIN ParsedDates THEN ParsedDates[v] ELSE "<none>"

\* the record would convert if it had no resources
ConvertsWithoutResources ==
    ordered_dict_body(Without(record, "resources")).ok

\* C5 as stated: a malformed resource (no id, an unparseable non-empty
\* last_modified or metadata_modified, no url) does not abort the conversion
\* of its record; only an absent or unparseable `created` does.
C5_OnlyCreatedAbortsRecord ==
    (/\ mapped
     /\ ConvertsWithoutResources
     /\ \A k \in 1..Len(Resources) :
            /\ "created" \in DOMAIN Resources[k]
            /\ Resources[k]["created"] \in DOMAIN ParsedDates)
        => package_dict # NoDict

\* C6 as stated: a distribution's dct:modified is the normalised last_modified
\* when that is present and non-empty, otherwise the normalised
\* metadata_modified when that is present and non-empty, otherwise the
\* distribution's own issued value.
C6_ModifiedFallbackChain ==
    Converted =>
        \A k \in 1..Len(Resources) :
            LET r == Resources[k]
                d == Distributions[k]["dcat:Distribution"]
            IN  d["dct:modified"].text =
                    IF Usable(r, "last_modified")
                    THEN Normalised(r["last_modified"])
                    ELSE IF Usable(r, "metadata_modified")
                    THEN Normalised(r["metadata_modified"])
                    ELSE d["dct:issued"].text

\* C7 as stated: dct:issued is present exactly when metadata_created is
\* available and is taken from it; dct:modified is taken from
\* metadata_modified when available, otherwise (absent or null) from
\* metadata_created when available, and is omitted only when neither is.
C7_RecordDates ==
    Converted =>
        LET ds == package_dict["dcat:Dataset"]
        IN  /\ ("dct:issued" \in DOMAIN ds) <=> Usable(record, "metadata_created")
            /\ Usable(record, "metadata_created") =>
                ds["dct:issued"].text = Normalised(record["metadata_created"])
            /\ IF Usable(record, "metadata_modified")
               THEN /\ "dct:modified" \in DOMAIN ds
                    /\ ds["dct:modified"].text
                            = Normalised(record["metadata_modified"])
               ELSE IF Usable(record, "metadata_created")
               THEN /\ "dct:modified" \in DOMAIN ds
                    /\ ds["dct:modified"].text
                            = Normalised(record["metadata_created"])
               ELSE "dct:modified" \notin DOMAIN ds

\* the rights string the claim C10 gives for a record's license
ClaimedRights(p) ==
    LET code == IF "license_id" \in DOMAIN p THEN p["license_id"] ELSE "odc-odbl"
    IN  IF code \in {"odc-odbl", "cc-by", "cc-by-sa"}
        THEN "NonCommercialAllowed-CommercialAllowed-ReferenceRequired"
        ELSE IF code \in {"cc-zero", "CC0-1.0"}
        THEN "NonCommercialAllowed-CommercialAllowed-ReferenceNotRequired"
        ELSE "NonCommercialWithPermission-CommercialWithPermission-ReferenceRequired"

\* C10: every distribution of a converted record carries as dct:rights the
\* table value of the record's license_id (odc-odbl when the key is absent,
\* the wsl-data string for any unrecognized code), so all distributions of
\* one record carry the same rights.
C10_LicenseMapping ==
    Converted =>
        \A k \in 1..Len(Distributions) :
            Distributions[k]["dcat:Distribution"]["dct:rights"]
                = ClaimedRights(record)

\* C10 witness: a record without license_id converted into two or more
\* distributions, all with the odc-odbl rights
C10_Witness ==
    /\ Converted
    /\ "license_id" \notin DOMAIN record
    /\ Len(Distributions) >= 2
    /\ \A k \in 1..Len(Distributions) :
            Distributions[k]["dcat:Distribution"]["dct:rights"]
                = RightsReferenceRequired

---------------------------------------------------------------------------
(* Claims about main() and the converter (checked under Spec) *)

\* the converter has returned its document to main()
ConverterReturned ==
    pc \in {"connect", "create_bucket", "upload_xml", "static_config",
            "upload_index", "finish", "done"}

\* the converter has just returned: main() holds the document and has not
\* done anything with it yet
ConverterJustReturned == pc = "connect"

\* the datasets of the returned document, in document order
Catalog ==
    LET items == xml_data.children[1].children
    IN  [k \in 1..Len(items) |-> items[k].content]

\* the mapper returns a dataset for the record
Convertible(p) == get_opendataswiss_ordered_dict(p) # NoDict

\* the datasets of the records of a list that convert, in list order
DatasetsOf(list) ==
    LET kept == SelectSeq(list, Convertible)
    IN  [k \in 1..Len(kept) |-> get_opendataswiss_ordered_dict(kept[k])]

\* the keys every complete dataset has
DatasetKeys ==
    {"@rdf:about", "dct:identifier", "dct:title", "dct:description",
     "dct:publisher", "dcat:contactPoint", "dcat:theme", "dct:language",
     "dcat:keyword", "dcat:landingPage", "dcat:distribution"}

\* C1: when the converter returns, it has not raised; the catalog it
\* returns holds exactly the datasets of the records that convert, so a
\* record the mapper fails on (one without `maintainer` in particular) is
\* left out alone and logged with the raw record, and every dataset in the
\* catalog is complete.
C1_PartialFailure ==
    ConverterJustReturned =>
        /\ raised = "none"
        /\ Catalog = DatasetsOf(metadata_list)
        /\ \A k \in 1..Len(metadata_list) :
            LET p == metadata_list[k]
            IN  /\ "maintainer" \notin DOMAIN p => ~Convertible(p)
                /\ ~Convertible(p) =>
                    /\ \E j \in 1..Len(log) : log[j].package = p
                    /\ "id" \in DOMAIN p =>
                        \A c \in 1..Len(Catalog) :
                            Catalog[c]["dcat:Dataset"]["dct:identifier"]
                                # p["id"] \o "@envidat"
        /\ \A c \in 1..Len(Catalog) :
            DatasetKeys \subseteq DOMAIN Catalog[c]["dcat:Dataset"]

\* C1 witness: three records, the second without maintainer, and a catalog
\* of exactly the first and the third
C1_Witness ==
    /\ ConverterReturned
    /\ Len(metadata_list) = 3
    /\ "maintainer" \notin DOMAIN metadata_list[2]
    /\ Len(Catalog) = 2
    /\ Catalog[1] = get_opendataswiss_ordered_dict(metadata_list[1])
    /\ Catalog[2] = get_opendataswiss_ordered_dict(metadata_list[3])
    /\ \E j \in 1..Len(log) : log[j].package = metadata_list[2]
    /\ raised = "none"

\* a record of the list lacks name, id or title
LacksRequiredField(list) ==
    \E k \in 1..Len(list) : ~({"name", "id", "title"} \subseteq DOMAIN list[k])

\* C2 as stated: when the fetched list holds a record without name, id or
\* title, the run does not abort: only that record is rejected, and all the
\* remaining records that convert are in the catalog.
C2_RequiredFieldPerRecord ==
    (response.kind = "ok" /\ LacksRequiredField(response.result)) =>
        /\ pc # "raised"
        /\ raised = "none"
        /\ ConverterReturned =>
            Len(Catalog) = Len(SelectSeq(response.result, Convertible))

\* C3 as stated: when the one request fails, exactly one attempt was made,
\* the failure is logged, an exception leaves the converter and main(), no
\* catalog is produced, and no bucket is created and nothing uploaded.
C3_FetchFailureAborts ==
    response.kind \notin {"pending", "ok"} =>
        /\ attempts = 1
        /\ log # <<>>
        /\ pc = "raised"
        /\ raised # "none"
        /\ xml_data = NoDict
        /\ converted_packages = <<>>
        /\ bucket = "unset"
        /\ s3_calls = <<>>

\* C4: while the loop runs and when it has ended, the datasets appended so
\* far are exactly those of the records already passed that convert, in
\* the order of the list -- nothing duplicated, reordered or added -- and
\* the returned catalog holds that same sequence.
C4_OrderPreserved ==
    /\ pc = "convert" =>
        /\ idx \in 1..(Len(metadata_list) + 1)
        /\ converted_packages = DatasetsOf(SubSeq(metadata_list, 1, idx - 1))
    /\ ConverterJustReturned =>
        converted_packages = DatasetsOf(metadata_list)
    /\ ConverterReturned => Catalog = converted_packages

\* C4 witness: the loop has ended on three records of which the first did
\* not convert, and the two datasets appended are those of the second and
\* the third, which differ
C4_Witness ==
    /\ pc = "convert"
    /\ idx = Len(metadata_list) + 1
    /\ Len(metadata_list) = 3
    /\ ~Convertible(metadata_list[1])
    /\ converted_packages =
        <<get_opendataswiss_ordered_dict(metadata_list[2]),
          get_opendataswiss_ordered_dict(metadata_list[3])>>
    /\ converted_packages[1] # converted_packages[2]

---------------------------------------------------------------------------
(* Claims about the distributions of a record (checked under SpecMapper) *)

\* the distribution made of the k-th resource of the mapped record
Distribution(k) == Distributions[k]["dcat:Distribution"]

\* the resource has a direct size that is truthy
HasDirectSize(r) == "size" \in DOMAIN r /\ r["size"] # 0

\* the size_value numbers and the unit multipliers as the claim C11 gives
\* them: the number written in the text, and the power of 1024 of the unit
\* named case-insensitively (KB when no unit is named)
ClaimedValue == ("2" :> 2) @@ ("10" :> 10) @@ ("512" :> 512)
ClaimedPower ==
    ("KB" :> 1) @@ ("kb" :> 1) @@ ("MB" :> 2) @@ ("mb" :> 2) @@
    ("GB" :> 3) @@ ("Gb" :> 3) @@ ("TB" :> 4) @@ ("tb" :> 4)

\* resource_size is a JSON object with a non-empty numeric size_value and
\* either no unit or one of the four units
HasComputableSize(r) ==
    /\ "resource_size" \in DOMAIN r
    /\ r["resource_size"] \in DOMAIN JsonDocuments
    /\ LET obj == JsonDocuments[r["resource_size"]]
       IN  /\ "size_value" \in DOMAIN obj
           /\ obj["size_value"] \in DOMAIN ClaimedValue
           /\ "size_units" \in DOMAIN obj =>
                obj["size_units"] \in DOMAIN ClaimedPower

\* the number of bytes of a byte count below 1024^3
Bytes(count) ==
    IF count.exp1024 = 0 THEN count.mantissa
    ELSE IF count.exp1024 = 1 THEN count.mantissa * 1024
    ELSE count.mantissa * 1024 * 1024

\* C11: a truthy direct size is the byteSize unchanged; without one, a
\* resource_size object with a non-empty numeric size_value gives
\* size_value times the multiplier of its unit -- KB 1024, MB 1024^2,
\* GB 1024^3, TB 1024^4, whatever the case of the letters, KB when no unit
\* is named -- so that "2" "MB" gives 2097152.
C11_ByteSize ==
    Converted =>
        \A k \in 1..Len(Resources) :
            LET r == Resources[k]
                size == Distribution(k)["dcat:byteSize"]
            IN  /\ HasDirectSize(r) => size = ByteCount(r["size"], 0)
                /\ (~HasDirectSize(r) /\ HasComputableSize(r)) =>
                    LET obj == JsonDocuments[r["resource_size"]]
                        power == IF "size_units" \in DOMAIN obj
                                 THEN ClaimedPower[obj["size_units"]] ELSE 1
                    IN  /\ size = ByteCount(ClaimedValue[obj["size_value"]], power)
                        /\ r["resource_size"] = Size2MB => Bytes(size) = 2097152

\* C11 witness: a converted record holding a resource with size_value "2"
\* and size_units "MB" and no truthy direct size, whose distribution has
\* 2097152 bytes
C11_Witness ==
    /\ Converted
    /\ \E k \in 1..Len(Resources) :
        /\ ~HasDirectSize(Resources[k])
        /\ "resource_size" \in DOMAIN Resources[k]
        /\ Resources[k]["resource_size"] = Size2MB
        /\ Bytes(Distribution(k)["dcat:byteSize"]) = 2097152

\* the resource_size of the resource cannot be read as a size: it is absent,
\* null, empty or no JSON, its size_value is null or no number, or its unit
\* is null or none of the four
SizeUnreadable(r) ==
    \/ "resource_size" \notin DOMAIN r
    \/ r["resource_size"] \in {None, ""}
    \/ r["resource_size"] \notin DOMAIN JsonDocuments
    \/ LET obj == JsonDocuments[r["resource_size"]]
       IN  \/ "size_value" \in DOMAIN obj
                /\ obj["size_value"] \notin DOMAIN ClaimedValue
           \/ "size_units" \in DOMAIN obj
                /\ obj["size_units"] \notin DOMAIN ClaimedPower

\* the mapped record with size and resource_size taken out of every resource
RecordWithoutSizes ==
    With(record, "resources",
         [k \in 1..Len(Resources) |->
            Without(Without(Resources[k], "size"), "resource_size")])

\* C12: a resource_size that cannot be read as a size never costs more than
\* the size: a record that converts without its size fields converts with
\* them, into one distribution per resource, and each resource without a
\* truthy direct size whose resource_size is unreadable has byteSize 0.
C12_SizeFailureNotFatal ==
    (mapped /\ ordered_dict_body(RecordWithoutSizes).ok) =>
        /\ package_dict # NoDict
        /\ Len(Distributions) = Len(Resources)
        /\ \A k \in 1..Len(Resources) :
            (~HasDirectSize(Resources[k]) /\ SizeUnreadable(Resources[k])) =>
                Distribution(k)["dcat:byteSize"] = ByteCount(0, 0)

\* C12 witness: a converted record of two resources, one of them with a
\* null unit in its resource_size and byteSize 0
C12_Witness ==
    /\ Converted
    /\ Len(Distributions) = 2
    /\ \E k \in 1..Len(Resources) :
        /\ ~HasDirectSize(Resources[k])
        /\ "resource_size" \in DOMAIN Resources[k]
        /\ Resources[k]["resource_size"] = SizeNullUnit
        /\ Distribution(k)["dcat:byteSize"] = ByteCount(0, 0)

---------------------------------------------------------------------------
(* Claims about the dataset of a record (checked under SpecMapper) *)

\* the dataset of the mapped record
Dataset == package_dict["dcat:Dataset"]

\* the kind (vcard:Individual or vcard:Organization) and the email of a
\* contact point
KindOf(contact) == CHOOSE kind \in DOMAIN contact : TRUE
EmailOf(contact) == contact[KindOf(contact)].hasEmail

\* C13: the contact points of a converted record are the individual alone
\* when the maintainer's email is envidat@wsl.ch, and otherwise the
\* individual followed by the fixed organization "EnviDat Support",
\* mailto:envidat@wsl.ch; either way one contact point of the dataset has
\* the email mailto:envidat@wsl.ch.
C13_ContactPoints ==
    Converted =>
        LET email == JsonDocuments[record["maintainer"]]["email"]
            contacts == Dataset["dcat:contactPoint"]
        IN  /\ DOMAIN contacts[1] = {"vcard:Individual"}
            /\ EmailOf(contacts[1]) = "mailto:" \o email
            /\ IF email = "envidat@wsl.ch"
               THEN Len(contacts) = 1
               ELSE /\ Len(contacts) = 2
                    /\ contacts[2] =
                        ("vcard:Organization" :>
                            [fn |-> <<"E", "n", "v", "i", "D", "a", "t", " ",
                                      "S", "u", "p", "p", "o", "r", "t">>,
                             hasEmail |-> "mailto:envidat@wsl.ch"])
            /\ \E k \in 1..Len(contacts) :
                    EmailOf(contacts[k]) = "mailto:envidat@wsl.ch"

\* C13 witness: a converted record whose maintainer has another email, with
\* the individual first and the organization second
C13_Witness ==
    /\ Converted
    /\ JsonDocuments[record["maintainer"]]["email"] = "eva@example.org"
    /\ Len(Dataset["dcat:contactPoint"]) = 2
    /\ KindOf(Dataset["dcat:contactPoint"][1]) = "vcard:Individual"
    /\ KindOf(Dataset["dcat:contactPoint"][2]) = "vcard:Organization"

\* a date field of d that is absent, null, empty or a parseable date
DateUsableOrEmpty(d, key) ==
    key \in DOMAIN d => d[key] \in {None, ""} \cup DOMAIN ParsedDates

\* a well-formed resource: an id, a url, a parseable created date, and no
\* other date that is neither empty nor parseable
WellFormedResource(r) ==
    /\ {"id", "url", "created"} \subseteq DOMAIN r
    /\ r["created"] \in DOMAIN ParsedDates
    /\ DateUsableOrEmpty(r, "last_modified")
    /\ DateUsableOrEmpty(r, "metadata_modified")

\* the record has name, id and title, a maintainer carrying name and email,
\* and well-formed resources
CompleteAsClaimed ==
    /\ {"name", "id", "title", "maintainer"} \subseteq DOMAIN record
    /\ record["maintainer"] \in DOMAIN JsonDocuments
    /\ {"name", "email"} \subseteq DOMAIN JsonDocuments[record["maintainer"]]
    /\ \A k \in 1..Len(Resources) : WellFormedResource(Resources[k])

\* the optional fields of the record that the mapper parses are well-formed:
\* publication is absent or a JSON object, and the record's two dates are
\* absent, empty or parseable
OptionalFieldsWellFormed ==
    /\ "publication" \in DOMAIN record =>
            record["publication"] \in DOMAIN JsonDocuments
    /\ DateUsableOrEmpty(record, "metadata_created")
    /\ DateUsableOrEmpty(record, "metadata_modified")

\* the identity the claim C14 gives the dataset of the mapped record
IdentityAsClaimed ==
    /\ package_dict # NoDict
    /\ Dataset["dct:identifier"] = record["id"] \o "@envidat"
    /\ Dataset["@rdf:about"] = "https://www.envidat.ch/#/metadata/" \o record["name"]
    /\ Dataset["dcat:landingPage"] = "https://www.envidat.ch/#/metadata/" \o record["name"]

\* C14 as stated: every record with name, id, title, a maintainer carrying
\* name and email, and well-formed resources is mapped to a dataset (never
\* None) whose identifier is {id}@envidat and whose @rdf:about and landing
\* page are https://www.envidat.ch/#/metadata/{name}.
C14_IdentityAsClaimed ==
    (mapped /\ CompleteAsClaimed) => IdentityAsClaimed

\* C14 amended: every such record whose parsed optional fields are
\* well-formed as well (publication a JSON object when present, the record's
\* dates empty or parseable) is mapped to a dataset with that identifier,
\* @rdf:about and landing page.
C14_DatasetIdentity ==
    (mapped /\ CompleteAsClaimed /\ OptionalFieldsWellFormed)
        => IdentityAsClaimed

\* C14 witness: a complete record with two resources mapped to its dataset,
\* whose identifier and landing page differ in more than the fixed parts
C14_Witness ==
    /\ mapped
    /\ CompleteAsClaimed
    /\ OptionalFieldsWellFormed
    /\ Len(Resources) = 2
    /\ IdentityAsClaimed
    /\ record["id"] # record["name"]

---------------------------------------------------------------------------
(* Claims about the list of distributions (checked under SpecMapper) *)

\* C17: a converted record has one distribution per resource, in resource
\* order (none when it has no resources); the k-th has the identifier
\* {name}.{id of resource k} and as @rdf:about
\* https://www.envidat.ch/dataset/{name}/resource/{id of resource k}.
C17_DistributionList ==
    Converted =>
        /\ Len(Distributions) = Len(Resources)
        /\ \A k \in 1..Len(Resources) :
            /\ DOMAIN Distributions[k] = {"dcat:Distribution"}
            /\ Distribution(k)["dct:identifier"]
                    = record["name"] \o "." \o Resources[k]["id"]
            /\ Distribution(k)["@rdf:about"]
                    = "https://www.envidat.ch/dataset/" \o record["name"]
                        \o "/resource/" \o Resources[k]["id"]

\* C17 witness: a converted record with two resources of different ids and
\* its two distributions
C17_Witness ==
    /\ Converted
    /\ Len(Resources) = 2
    /\ Resources[1]["id"] # Resources[2]["id"]
    /\ Len(Distributions) = 2
    /\ Distribution(1)["dct:identifier"] # Distribution(2)["dct:identifier"]

\* the tags of the mapped record
Tags == Get(record, "tags", <<>>)

\* the display names of the model in upper case
UpperCased ==
    ("snow" :> "SNOW") @@ ("Forest" :> "FOREST") @@ ("SNOW" :> "SNOW")

\* C18: the dataset of a converted record has one keyword per tag, in tag
\* order, each tagged with the language en; the k-th is the display_name of
\* tag k in upper case, or the empty string when tag k has no display_name;
\* a record without tags has no keyword.
C18_Keywords ==
    Converted =>
        /\ Len(Dataset["dcat:keyword"]) = Len(Tags)
        /\ "tags" \notin DOMAIN record => Dataset["dcat:keyword"] = <<>>
        /\ \A k \in 1..Len(Tags) :
            Dataset["dcat:keyword"][k] =
                [lang |-> "en",
                 text |-> IF "display_name" \in DOMAIN Tags[k]
                          THEN UpperCased[Tags[k]["display_name"]]
                          ELSE ""]

\* C18 witness: a converted record whose first tag has no display_name and
\* whose second has one in mixed case, with the keywords "" and "FOREST"
C18_Witness ==
    /\ Converted
    /\ Len(Tags) = 2
    /\ "display_name" \notin DOMAIN Tags[1]
    /\ Tags[2] = [display_name |-> "Forest"]
    /\ Dataset["dcat:keyword"] =
            <<[lang |-> "en", text |-> ""], [lang |-> "en", text |-> "FOREST"]>>

\* the keys every distribution has
DistributionKeys ==
    {"@rdf:about", "dct:identifier", "dct:title", "dct:description",
     "dct:issued", "dct:modified", "dct:language", "dcat:accessURL",
     "dct:rights", "dcat:byteSize"}

\* C19: a distribution's dcat:mediaType is the resource's mimetype when that
\* is non-empty, otherwise its mimetype_inner when that is non-empty, and
\* the key is absent when neither is; dct:format is present exactly when the
\* resource has a non-empty format, and is that format; the other ten keys
\* of the distribution are present either way.
C19_MediaTypeAndFormat ==
    Converted =>
        \A k \in 1..Len(Resources) :
            LET r == Resources[k]
                d == Distribution(k)
            IN  /\ IF Usable(r, "mimetype")
                   THEN /\ "dcat:mediaType" \in DOMAIN d
                        /\ d["dcat:mediaType"] = r["mimetype"]
                   ELSE IF Usable(r, "mimetype_inner")
                   THEN /\ "dcat:mediaType" \in DOMAIN d
                        /\ d["dcat:mediaType"] = r["mimetype_inner"]
                   ELSE "dcat:mediaType" \notin DOMAIN d
                /\ ("dct:format" \in DOMAIN d) <=> Usable(r, "format")
                /\ Usable(r, "format") => d["dct:format"] = r["format"]
                /\ DistributionKeys \subseteq DOMAIN d
                /\ DOMAIN d \subseteq
                        DistributionKeys \cup {"dcat:mediaType", "dct:format"}

\* C19 witness: a converted record with a resource whose mimetype is empty
\* and whose mimetype_inner is not, and with no format: the distribution
\* has the inner type as dcat:mediaType and no dct:format
C19_Witness ==
    /\ Converted
    /\ \E k \in 1..Len(Resources) :
        /\ "mimetype" \in DOMAIN Resources[k]
        /\ Resources[k]["mimetype"] = ""
        /\ Usable(Resources[k], "mimetype_inner")
        /\ "format" \notin DOMAIN Resources[k]
        /\ Distribution(k)["dcat:mediaType"] = Resources[k]["mimetype_inner"]
        /\ "dct:format" \notin DOMAIN Distribution(k)

---------------------------------------------------------------------------
(* Claims about the catalog document and publishing (checked under Spec) *)

\* the ten namespace declarations in the order the claim C15 gives
ClaimedDeclarations ==
    <<"xmlns:dct", "xmlns:dc", "xmlns:dcat", "xmlns:foaf", "xmlns:xsd",
      "xmlns:rdfs", "xmlns:rdf", "xmlns:vcard", "xmlns:odrs", "xmlns:schema">>

\* C15: the document the converter returns has the one root rdf:RDF, which
\* declares exactly the ten namespaces in the order dct, dc, dcat, foaf,
\* xsd, rdfs, rdf, vcard, odrs, schema and holds one dcat:Catalog whose
\* dcat:dataset children are the converted datasets in their order; with
\* no dataset at all (nothing fetched, or every record failed) the document
\* still has its root and catalog, and nothing was raised.
C15_CatalogAssembly ==
    ConverterReturned =>
        /\ raised = "none"
        /\ Len(get_wrapper_dict(converted_packages)) = 1
        /\ xml_data.tag = "rdf:RDF"
        /\ [k \in 1..Len(xml_data.attributes) |-> xml_data.attributes[k][1]]
                = ClaimedDeclarations
        /\ \A k \in 1..Len(Namespaces) :
                xml_data.attributes[k][2] = Namespaces[k][2]
        /\ Len(xml_data.children) = 1
        /\ xml_data.children[1].tag = "dcat:Catalog"
        /\ Len(xml_data.children[1].children) = Len(converted_packages)
        /\ \A k \in 1..Len(converted_packages) :
            /\ xml_data.children[1].children[k].tag = "dcat:dataset"
            /\ xml_data.children[1].children[k].content = converted_packages[k]

\* C15 witness: every one of two fetched records failed, and the converter
\* returned the root with an empty catalog
C15_Witness ==
    /\ ConverterReturned
    /\ Len(metadata_list) = 2
    /\ converted_packages = <<>>
    /\ xml_data.tag = "rdf:RDF"
    /\ Len(xml_data.attributes) = 10
    /\ xml_data.children[1].children = <<>>

\* what each storage wrapper returns when the storage client call fails
ReturnedOnFailure ==
    ("create_s3_bucket" :> None) @@
    ("upload_to_s3_from_memory" :> "False") @@
    ("set_s3_static_config" :> None)

\* C16 as stated: no storage wrapper raises, and what each call returned
\* tells whether the storage client did what it was asked: the value
\* returned on failure (None for the bucket, False for an upload, the
\* failure value of the static configuration) is returned on failure only.
C16_FailuresReturned ==
    /\ pc \notin {"idle", "fetch", "raised"} => raised = "none"
    /\ \A k \in 1..Len(s3_calls) :
        LET c == s3_calls[k]
        IN  c.client_ok <=> c.returned # ReturnedOnFailure[c.call]

\* the names of the model in the order of Python's string comparison
NamesInOrder == <<"alpha", "beta", "gamma">>

\* the place of a dataset's record name in that order, read off the
\* dataset's @rdf:about
NamePlace(dataset) ==
    CHOOSE k \in 1..Len(NamesInOrder) :
        dataset["dcat:Dataset"]["@rdf:about"]
            = "https://www.envidat.ch/#/metadata/" \o NamesInOrder[k]

\* the identifiers of the datasets of a list
Identifiers(datasets) ==
    [k \in 1..Len(datasets) |-> datasets[k]["dcat:Dataset"]["dct:identifier"]]

\* the identifiers that the records of the given name get, for the records
\* of the fetched list that convert, in fetched order
FetchedIdentifiers(name) ==
    LET Named(p) == p["name"] = name /\ Convertible(p)
        kept == SelectSeq(response.result, Named)
    IN  [k \in 1..Len(kept) |-> kept[k]["id"] \o "@envidat"]

\* the identifiers of the datasets of the catalog that carry the given name,
\* in catalog order
CatalogIdentifiers(name) ==
    LET Named(dataset) == NamesInOrder[NamePlace(dataset)] = name
    IN  Identifiers(SelectSeq(Catalog, Named))

\* C21: when the converter returns (so every fetched record had a name),
\* the datasets of the catalog are in non-decreasing order of record name,
\* and the datasets of one name are those of the fetched records of that
\* name that convert, in their fetched order: the sort is stable, and the
\* records that fail leave the order of the others as it is.
C21_SortedCatalog ==
    ConverterJustReturned =>
        /\ \A k \in 1..Len(response.result) :
                "name" \in DOMAIN response.result[k]
        /\ \A i, j \in 1..Len(Catalog) :
                i < j => NamePlace(Catalog[i]) <= NamePlace(Catalog[j])
        /\ \A k \in 1..Len(NamesInOrder) :
                CatalogIdentifiers(NamesInOrder[k])
                    = FetchedIdentifiers(NamesInOrder[k])

\* C21 witness: three records were fetched in another order than the sorted
\* one, one of them fails, and the catalog has the two datasets named beta
\* in their fetched order, id-3 before id-2
C21_Witness ==
    /\ ConverterJustReturned
    /\ Len(response.result) = 3
    /\ response.result # metadata_list
    /\ \E k \in 1..Len(response.result) : ~Convertible(response.result[k])
    /\ Identifiers(Catalog) = <<"id-3@envidat", "id-2@envidat">>

---------------------------------------------------------------------------
(* Claims about the order of publishing (checked under SpecFair) *)

\* the storage calls of a whole run, by wrapper and key, in the order the
\* claim C20 gives
ClaimedCalls ==
    << <<"create_s3_bucket", "">>,
       <<"upload_to_s3_from_memory", "envidat_export_opendataswiss.xml">>,
       <<"set_s3_static_config", "">>,
       <<"upload_to_s3_from_memory", "index.html">> >>

\* the storage calls made so far are the first ones of ClaimedCalls, each
\* made once
CallsInOrder ==
    /\ Len(s3_calls) <= Len(ClaimedCalls)
    /\ \A k \in 1..Len(s3_calls) :
            <<s3_calls[k].call, s3_calls[k].key>> = ClaimedCalls[k]

\* C20: the storage calls are made in the order create bucket, upload of
\* envidat_export_opendataswiss.xml, static-website configuration, upload
\* of index.html, each once and none before the converter has returned its
\* document; without a bucket both uploads are still made and return False;
\* and whichever of these steps fail, main() raises nothing, makes all four
\* calls and reaches its final "Done".
C20_PublishSequence ==
    /\ [](CallsInOrder)
    /\ [](s3_calls # <<>> => (ConverterReturned /\ xml_data # NoDict))
    /\ [](ConverterReturned => raised = "none")
    /\ [](\A k \in 1..Len(s3_calls) :
            (s3_calls[k].call = "upload_to_s3_from_memory" /\ bucket = None)
                => s3_calls[k].returned = "False")
    /\ [](pc = "done" => Len(s3_calls) = Len(ClaimedCalls))
    /\ (pc = "create_bucket" ~> pc = "done")

\* C20 witness: main() is done after a run in which no bucket was returned,
\* both uploads returned False and the configuration failed, with all four
\* calls made
C20_Witness ==
    /\ pc = "done"
    /\ raised = "none"
    /\ bucket = None
    /\ Len(s3_calls) = 4
    /\ s3_calls[1].returned = None
    /\ s3_calls[2].returned = "False"
    /\ ~s3_calls[3].client_ok
    /\ s3_calls[4].returned = "False"

===========================================================================
